---- MODULE Spec2Model ----
(***************************************************************************)
(* Model of day1/02_streamlit_app/app.py: the script that the hosting     *)
(* process executes top to bottom once per rendering pass of a session.    *)
(* A pass is cut into the script's statements; sessions of one process     *)
(* interleave at statement granularity and share only the resource cache   *)
(* behind load_model_cached.                                               *)
(*                                                                         *)
(* Page identifiers: "Chat" = "チャット", "History" = "履歴閲覧",            *)
(* "SampleDataManagement" = "サンプルデータ管理".                            *)
(***************************************************************************)
EXTENDS Integers, Sequences, FiniteSets, TLC

\* ---------------------------------------------------------------- bounds
NumSessions == 2
MaxRerun == 2
MaxConstruct == 2

Sessions == 1..NumSessions

\* ------------------------------------------------------------- constants
\* pages dict keys in insertion order (app.py 94-99)
page_options == <<"Chat", "History", "SampleDataManagement">>

PageSet == {page_options[i] : i \in 1..Len(page_options)}

\* session_state has no 'page' entry
NoPage == "<absent>"
\* a stored value that is none of the page identifiers
Bogus == "<unknown>"
\* values an overwrite of session_state.page can leave behind
StoredValues == PageSet \cup {Bogus}

\* no widget state registered for key "page_selector"
NoWidget == "<nowidget>"
\* the Python None returned by load_model_cached
None == "None"
\* the pipeline object returned by load_model_cached
Handle == "pipe"
\* the resource cache has no entry for load_model_cached
Empty == "<empty>"
\* result of list.index when the value is missing
ValueError == -1
\* locals not yet assigned in this pass
Unset == "<unset>"
\* current_page_index before line 103/105 binds it
NoIdx == -2

VARIABLES
    pc,          \* per session: statement the pass is at
    page,        \* per session: st.session_state.page (or NoPage)
    widget,      \* per session: value held by the radio keyed "page_selector"
    reruns,      \* per session: st.rerun() calls since the last user interaction
    entered,     \* per session: st.session_state.page as the running script found it at line 1
    current_page_index, \* per session: local of the pass
    selected_page,      \* per session: local of the pass
    pipe,        \* per session: module-level name pipe of the pass
    notices,     \* per session: status elements emitted in the pass
    rendered,    \* per session: dispatch branches taken in the pass
    invoked,     \* per session: ui.display_* collaborators called in the pass
    dbFailed,    \* per session: database.init_db raised in the pass
    cache,       \* process: memoized result of load_model_cached (or Empty)
    lock,        \* process: set of sessions holding the cache's compute lock (at most one)
    constructs   \* process: number of times pipeline(...) was called

vars == <<pc, page, widget, reruns, entered,
          current_page_index, selected_page, pipe, notices, rendered,
          invoked, dbFailed, cache, lock, constructs>>

sessionVars == <<page, widget, reruns, entered>>
localVars == <<current_page_index, selected_page, pipe, notices, rendered,
               invoked, dbFailed>>
cacheVars == <<cache, lock, constructs>>

\* ------------------------------------------------------------- helpers
Min(a, b) == IF a < b THEN a ELSE b

\* list.index(x): 0-based position of the first equal element, ValueError if none
RECURSIVE IndexFrom(_, _, _)
IndexFrom(seq, x, i) ==
    IF i > Len(seq) THEN ValueError
    ELSE IF seq[i] = x THEN i - 1
    ELSE IndexFrom(seq, x, i + 1)

IndexOf(seq, x) == IndexFrom(seq, x, 1)

\* 0-based subscript
At(seq, i) == seq[i + 1]

\* truthiness of pipe in "if pipe:"
Truthy(p) == p # None

\* what load_model_cached returns for an outcome of pipeline(...)
LoadResult(outcome) == IF outcome = "ok" THEN Handle ELSE None

\* status elements load_model_cached emits for an outcome
LoadNotices(outcome) ==
    CASE outcome = "ok" -> {"model_loaded"}
      [] outcome = "ImportError" -> {"model_import_error"}
      [] OTHER -> {"model_load_error"}

Outcomes == {"ok", "ImportError", "Exception"}

\* ---------------------------------------------------------------- Init
Init ==
    /\ pc = [s \in Sessions |-> "fresh"]
    /\ page = [s \in Sessions |-> NoPage]
    /\ widget = [s \in Sessions |-> NoWidget]
    /\ reruns = [s \in Sessions |-> 0]
    /\ entered = [s \in Sessions |-> NoPage]
    /\ current_page_index = [s \in Sessions |-> NoIdx]
    /\ selected_page = [s \in Sessions |-> Unset]
    /\ pipe = [s \in Sessions |-> Unset]
    /\ notices = [s \in Sessions |-> {}]
    /\ rendered = [s \in Sessions |-> {}]
    /\ invoked = [s \in Sessions |-> {}]
    /\ dbFailed = [s \in Sessions |-> FALSE]
    /\ cache = Empty
    /\ lock = {}
    /\ constructs = 0

\* the pass-local names are unbound when the script starts from the top
ResetLocals(s) ==
    /\ current_page_index' = [current_page_index EXCEPT ![s] = NoIdx]
    /\ selected_page' = [selected_page EXCEPT ![s] = Unset]
    /\ pipe' = [pipe EXCEPT ![s] = Unset]
    /\ notices' = [notices EXCEPT ![s] = {}]
    /\ rendered' = [rendered EXCEPT ![s] = {}]
    /\ invoked' = [invoked EXCEPT ![s] = {}]
    /\ dbFailed' = [dbFailed EXCEPT ![s] = FALSE]

\* ------------------------------------------------------- between passes
\* The host starts a pass: first load of the session, or an interaction
\* with some other element of the page.
StartPass(s) ==
    /\ pc[s] \in {"fresh", "done", "stopped"}
    /\ pc' = [pc EXCEPT ![s] = "nltk"]
    /\ reruns' = [reruns EXCEPT ![s] = 0]
    /\ entered' = [entered EXCEPT ![s] = page[s]]
    /\ ResetLocals(s)
    /\ UNCHANGED <<page, widget, cacheVars>>

\* The user picks option p of the radio shown by the last completed pass;
\* the front end records the value under the widget and the host starts a pass.
SelectPage(s, p) ==
    /\ pc[s] = "done"
    /\ widget[s] # NoWidget
    /\ pc' = [pc EXCEPT ![s] = "nltk"]
    /\ widget' = [widget EXCEPT ![s] = p]
    /\ reruns' = [reruns EXCEPT ![s] = 0]
    /\ entered' = [entered EXCEPT ![s] = page[s]]
    /\ ResetLocals(s)
    /\ UNCHANGED <<page, cacheVars>>

\* Something outside the script overwrites st.session_state.page between passes.
ExternalOverwrite(s, v) ==
    /\ pc[s] \in {"done", "stopped"}
    /\ page[s] # v
    /\ page' = [page EXCEPT ![s] = v]
    /\ UNCHANGED <<pc, widget, reruns, entered, localVars, cacheVars>>

\* ------------------------------------------------------ initialization
\* app.py 24-27
InitNltk(s) ==
    /\ pc[s] = "nltk"
    /\ \E ok \in BOOLEAN :
         notices' = [notices EXCEPT ![s] = IF ok THEN @ ELSE @ \cup {"nltk_warning"}]
    /\ pc' = [pc EXCEPT ![s] = "db"]
    /\ UNCHANGED <<sessionVars, current_page_index, selected_page, pipe,
                   rendered, invoked, dbFailed, cacheVars>>

\* app.py 30-34
InitDb(s) ==
    /\ pc[s] = "db"
    /\ \E ok \in BOOLEAN :
         IF ok
         THEN /\ pc' = [pc EXCEPT ![s] = "seed"]
              /\ UNCHANGED <<notices, dbFailed>>
         ELSE /\ pc' = [pc EXCEPT ![s] = "stopped"]
              /\ notices' = [notices EXCEPT ![s] = @ \cup {"db_error"}]
              /\ dbFailed' = [dbFailed EXCEPT ![s] = TRUE]
    /\ UNCHANGED <<page, widget, reruns, entered, current_page_index, selected_page,
                   pipe, rendered, invoked, cacheVars>>

\* Variant: the except clause of 39-40 ends the pass like the one of 32-34.
EnsureInitialDataFatal(s) ==
    /\ pc[s] = "seed"
    /\ \E ok \in BOOLEAN :
         /\ notices' = [notices EXCEPT ![s] = IF ok THEN @ ELSE @ \cup {"seed_warning"}]
         /\ pc' = [pc EXCEPT ![s] = IF ok THEN "model" ELSE "stopped"]
    /\ UNCHANGED <<sessionVars, current_page_index, selected_page, pipe,
                   rendered, invoked, dbFailed, cacheVars>>

\* app.py 37-40
EnsureInitialData(s) ==
    /\ pc[s] = "seed"
    /\ \E ok \in BOOLEAN :
         notices' = [notices EXCEPT ![s] = IF ok THEN @ ELSE @ \cup {"seed_warning"}]
    /\ pc' = [pc EXCEPT ![s] = "model"]
    /\ UNCHANGED <<sessionVars, current_page_index, selected_page, pipe,
                   rendered, invoked, dbFailed, cacheVars>>

\* ------------------------------------------- load_model_cached (45-78)
\* Variant: a miss runs the body without taking the compute lock.
LoadModelLookupUnlocked(s) ==
    /\ pc[s] = "model"
    /\ IF cache # Empty
       THEN /\ pipe' = [pipe EXCEPT ![s] = LoadResult(cache)]
            /\ notices' = [notices EXCEPT ![s] = @ \cup LoadNotices(cache)]
            /\ pc' = [pc EXCEPT ![s] = "init"]
       ELSE /\ pc' = [pc EXCEPT ![s] = "model_construct"]
            /\ UNCHANGED <<pipe, notices>>
    /\ UNCHANGED <<sessionVars, current_page_index, selected_page,
                   rendered, invoked, dbFailed, cacheVars>>

\* The decorator's lookup: a hit returns the memoized value and replays the
\* status elements recorded with it; a miss goes for the compute lock.
LoadModelLookup(s) ==
    /\ pc[s] = "model"
    /\ IF cache # Empty
       THEN /\ pipe' = [pipe EXCEPT ![s] = LoadResult(cache)]
            /\ notices' = [notices EXCEPT ![s] = @ \cup LoadNotices(cache)]
            /\ pc' = [pc EXCEPT ![s] = "init"]
       ELSE /\ pc' = [pc EXCEPT ![s] = "model_lock"]
            /\ UNCHANGED <<pipe, notices>>
    /\ UNCHANGED <<sessionVars, current_page_index, selected_page,
                   rendered, invoked, dbFailed, cacheVars>>

\* The decorator takes the compute lock and looks the value up again: another
\* session may have computed it while this one waited.
LoadModelLock(s) ==
    /\ pc[s] = "model_lock"
    /\ lock = {}
    /\ IF cache # Empty
       THEN /\ pipe' = [pipe EXCEPT ![s] = LoadResult(cache)]
            /\ notices' = [notices EXCEPT ![s] = @ \cup LoadNotices(cache)]
            /\ pc' = [pc EXCEPT ![s] = "init"]
            /\ UNCHANGED lock
       ELSE /\ lock' = {s}
            /\ pc' = [pc EXCEPT ![s] = "model_construct"]
            /\ UNCHANGED <<pipe, notices>>
    /\ UNCHANGED <<sessionVars, current_page_index, selected_page,
                   rendered, invoked, dbFailed, cache, constructs>>

\* The body of load_model_cached (48-75): pipeline(...) succeeds or raises;
\* both except clauses return None; the decorator memoizes what was returned.
LoadModelConstruct(s) ==
    /\ pc[s] = "model_construct"
    /\ \E outcome \in Outcomes :
         /\ cache' = outcome
         /\ pipe' = [pipe EXCEPT ![s] = LoadResult(outcome)]
         /\ notices' = [notices EXCEPT ![s] = @ \cup LoadNotices(outcome)]
    /\ constructs' = Min(constructs + 1, MaxConstruct)
    /\ lock' = lock \ {s}
    /\ pc' = [pc EXCEPT ![s] = "init"]
    /\ UNCHANGED <<sessionVars, current_page_index, selected_page,
                   rendered, invoked, dbFailed>>

\* ------------------------------------------------------------ sidebar
\* app.py 90-91
InitPage(s) ==
    /\ pc[s] = "init"
    /\ page' = [page EXCEPT ![s] = IF @ = NoPage THEN page_options[1] ELSE @]
    /\ pc' = [pc EXCEPT ![s] = "resolve"]
    /\ UNCHANGED <<widget, reruns, entered, localVars, cacheVars>>

\* Variant: the except block binds another index than 0.
ResolvedIndexOne(stored) ==
    IF IndexOf(page_options, stored) # ValueError
    THEN IndexOf(page_options, stored)
    ELSE 1

\* app.py 102-106: the index the try block or the except block binds
ResolvedIndex(stored) ==
    IF IndexOf(page_options, stored) # ValueError
    THEN IndexOf(page_options, stored)
    ELSE 0

\* Variant: the except block leaves st.session_state.page as it found it.
ResolvedPageKept(stored) == stored

\* app.py 102-106: st.session_state.page after the try statement
ResolvedPage(stored) ==
    IF IndexOf(page_options, stored) # ValueError
    THEN stored
    ELSE At(page_options, 0)

\* app.py 102-106
Resolve(s) ==
    /\ pc[s] = "resolve"
    /\ current_page_index' = [current_page_index EXCEPT ![s] = ResolvedIndex(page[s])]
    /\ page' = [page EXCEPT ![s] = ResolvedPage(page[s])]
    /\ pc' = [pc EXCEPT ![s] = "radio"]
    /\ UNCHANGED <<widget, reruns, entered, selected_page, pipe,
                   notices, rendered, invoked, dbFailed, cacheVars>>

\* app.py 109-116: what st.radio returns. The host either still holds a
\* value for the widget keyed "page_selector" (kept) and returns it, or takes
\* the widget for a new one and returns options[index]. Which of the two
\* happens when the index argument differs from the last pass depends on the
\* host's rule for widget identity, so both are allowed.
RadioValue(held, index, kept) ==
    IF kept /\ held # NoWidget THEN held ELSE At(page_options, index)

Radio(s) ==
    /\ pc[s] = "radio"
    /\ \E kept \in BOOLEAN :
         /\ selected_page' = [selected_page EXCEPT ![s] =
                                RadioValue(widget[s], current_page_index[s], kept)]
         /\ widget' = [widget EXCEPT ![s] =
                                RadioValue(widget[s], current_page_index[s], kept)]
    /\ pc' = [pc EXCEPT ![s] = "reconcile"]
    /\ UNCHANGED <<page, reruns, entered, current_page_index, pipe, notices,
                   rendered, invoked, dbFailed, cacheVars>>

\* app.py 127-130
ModelStatus(p) == IF Truthy(p) THEN "status_ready" ELSE "status_failed"

\* Variant: line 121 without line 122.
ReconcileNoRerun(s) ==
    /\ pc[s] = "reconcile"
    /\ page' = [page EXCEPT ![s] = selected_page[s]]
    /\ notices' = [notices EXCEPT ![s] = @ \cup {ModelStatus(pipe[s])}]
    /\ pc' = [pc EXCEPT ![s] = "dispatch"]
    /\ UNCHANGED <<widget, reruns, entered, current_page_index, selected_page,
                   pipe, rendered, invoked, dbFailed, cacheVars>>

\* Variant: lines 121-122 without the test of line 120.
ReconcileAlwaysRerun(s) ==
    /\ pc[s] = "reconcile"
    /\ page' = [page EXCEPT ![s] = selected_page[s]]
    /\ reruns' = [reruns EXCEPT ![s] = Min(@ + 1, MaxRerun)]
    /\ entered' = [entered EXCEPT ![s] = selected_page[s]]
    /\ pc' = [pc EXCEPT ![s] = "nltk"]
    /\ ResetLocals(s)
    /\ UNCHANGED <<widget, cacheVars>>

\* Variant: lines 120-122 missing.
ReconcileIgnored(s) ==
    /\ pc[s] = "reconcile"
    /\ notices' = [notices EXCEPT ![s] = @ \cup {ModelStatus(pipe[s])}]
    /\ pc' = [pc EXCEPT ![s] = "dispatch"]
    /\ UNCHANGED <<page, widget, reruns, entered, current_page_index, selected_page,
                   pipe, rendered, invoked, dbFailed, cacheVars>>

\* app.py 120-130: st.rerun() abandons the pass and the script starts again
\* from the top with session state and widget state kept
Reconcile(s) ==
    /\ pc[s] = "reconcile"
    /\ IF selected_page[s] # page[s]
       THEN /\ page' = [page EXCEPT ![s] = selected_page[s]]
            /\ reruns' = [reruns EXCEPT ![s] = Min(@ + 1, MaxRerun)]
            /\ entered' = [entered EXCEPT ![s] = selected_page[s]]
            /\ pc' = [pc EXCEPT ![s] = "nltk"]
            /\ ResetLocals(s)
       ELSE /\ notices' = [notices EXCEPT ![s] = @ \cup {ModelStatus(pipe[s])}]
            /\ pc' = [pc EXCEPT ![s] = "dispatch"]
            /\ UNCHANGED <<page, reruns, entered, current_page_index, selected_page,
                           pipe, rendered, invoked, dbFailed>>
    /\ UNCHANGED <<widget, cacheVars>>

\* ------------------------------------------------------- main container
\* Variant: the second condition compares with a string that is no page.
BranchesTypo(p) ==
    IF p = "Chat" THEN {"Chat"}
    ELSE IF p = "Histroy" THEN {"History"}
    ELSE IF p = "SampleDataManagement" THEN {"SampleDataManagement"}
    ELSE {}

\* app.py 149-167: the branches of the if/elif chain whose condition holds
\* when reached
Branches(p) ==
    IF p = "Chat" THEN {"Chat"}
    ELSE IF p = "History" THEN {"History"}
    ELSE IF p = "SampleDataManagement" THEN {"SampleDataManagement"}
    ELSE {}

\* Variant: line 154 without the test of line 152.
CollaboratorsUnguarded(p, h) ==
    IF p = "Chat" THEN {"display_chat_page"}
    ELSE IF p = "History" THEN {"display_history_page"}
    ELSE IF p = "SampleDataManagement" THEN {"display_data_page"}
    ELSE {}

\* Variant: the test of line 152 wraps the whole chain.
CollaboratorsNeedModel(p, h) ==
    IF ~Truthy(h) THEN {}
    ELSE IF p = "Chat" THEN {"display_chat_page"}
    ELSE IF p = "History" THEN {"display_history_page"}
    ELSE IF p = "SampleDataManagement" THEN {"display_data_page"}
    ELSE {}

\* app.py 152-167: the ui.display_* calls made for page p with model handle h
Collaborators(p, h) ==
    IF p = "Chat" THEN (IF Truthy(h) THEN {"display_chat_page"} ELSE {})
    ELSE IF p = "History" THEN {"display_history_page"}
    ELSE IF p = "SampleDataManagement" THEN {"display_data_page"}
    ELSE {}

\* app.py 155-157
ChatNotices(p, h) ==
    IF p = "Chat" /\ ~Truthy(h) THEN {"chat_unavailable"} ELSE {}

\* app.py 148-167
Dispatch(s) ==
    /\ pc[s] = "dispatch"
    /\ rendered' = [rendered EXCEPT ![s] = Branches(page[s])]
    /\ invoked' = [invoked EXCEPT ![s] = Collaborators(page[s], pipe[s])]
    /\ notices' = [notices EXCEPT ![s] = @ \cup ChatNotices(page[s], pipe[s])]
    /\ pc' = [pc EXCEPT ![s] = "done"]
    /\ UNCHANGED <<sessionVars, current_page_index, selected_page, pipe,
                   dbFailed, cacheVars>>

\* ---------------------------------------------------------------- Next
Next ==
    \E s \in Sessions :
        \/ StartPass(s)
        \/ \E p \in PageSet : SelectPage(s, p)
        \/ \E v \in StoredValues : ExternalOverwrite(s, v)
        \/ InitNltk(s)
        \/ InitDb(s)
        \/ EnsureInitialData(s)
        \/ LoadModelLookup(s)
        \/ LoadModelLock(s)
        \/ LoadModelConstruct(s)
        \/ InitPage(s)
        \/ Resolve(s)
        \/ Radio(s)
        \/ Reconcile(s)
        \/ Dispatch(s)

Spec == Init /\ [][Next]_vars

\* ------------------------------------------------------------ properties
\* the statements of a pass that follow the try statement of 102-106
PastResolve == {"radio", "reconcile", "dispatch"}

\* the collaborator the spec assigns to each page
CollaboratorOf(p) ==
    CASE p = "Chat" -> "display_chat_page"
      [] p = "History" -> "display_history_page"
      [] p = "SampleDataManagement" -> "display_data_page"

\* some statement of session s's running script can execute
ScriptStep(s) ==
    \/ InitNltk(s) \/ InitDb(s) \/ EnsureInitialData(s)
    \/ LoadModelLookup(s) \/ LoadModelLock(s) \/ LoadModelConstruct(s)
    \/ InitPage(s) \/ Resolve(s) \/ Radio(s) \/ Reconcile(s) \/ Dispatch(s)

\* session s executes a statement in this step
Moves(s) == pc'[s] # pc[s]

\* C1: whenever a pass is past the Resolve-selection-index step, up to and
\* including Dispatch, currentPage is one of the three page identifiers,
\* whatever passes, selections and overwrites came before.
C1_PageEnumerated ==
    \A s \in Sessions : pc[s] \in PastResolve => page[s] \in PageSet

\* C1 witness: a pass that found an overwritten, unknown value is at Dispatch.
C1_Witness ==
    \E s \in Sessions : pc[s] = "dispatch" /\ entered[s] = Bogus /\ page[s] \in PageSet

\* C2: Initialize turns a missing currentPage into Chat; Resolve turns a value
\* outside the enumeration into Chat with index 0, and a fresh session's Chat
\* into index 0; the step emits nothing and the pass goes on to the selector.
C2_ResolveFailsOpen ==
    [][\A s \in Sessions :
        /\ (pc[s] = "init" /\ Moves(s) /\ page[s] = NoPage)
              => (page'[s] = "Chat" /\ pc'[s] = "resolve" /\ notices'[s] = notices[s])
        /\ (pc[s] = "resolve" /\ Moves(s))
              => /\ pc'[s] = "radio"
                 /\ notices'[s] = notices[s]
                 /\ (page[s] \notin PageSet \/ entered[s] = NoPage)
                       => (page'[s] = "Chat" /\ current_page_index'[s] = 0)
      ]_vars

\* C2 witness: a pass that started with an unknown value ran to its end on Chat.
C2_Witness ==
    \E s \in Sessions :
        /\ pc[s] = "done"
        /\ entered[s] = Bogus
        /\ current_page_index[s] = 0
        /\ rendered[s] = {"Chat"}

\* C3 as stated: after the one re-run of a changed selection the pass invokes
\* the selected page's collaborator.
C3_Original ==
    \A s \in Sessions :
        (pc[s] = "done" /\ reruns[s] >= 1)
            => (reruns[s] = 1 /\ invoked[s] = {CollaboratorOf(entered[s])})

\* C3 amended: a selection that differs from currentPage makes Reconcile store
\* exactly the selection and request one re-run; the restarted pass sees the
\* selection equal to currentPage, requests no further re-run and takes the
\* selected page's render path, which invokes the page's collaborator except
\* for Chat with an absent model handle, where no collaborator is invoked.
C3_SelectionOneRerun ==
    [][\A s \in Sessions :
        /\ (pc[s] = "reconcile" /\ Moves(s) /\ selected_page[s] # page[s])
              => /\ page'[s] = selected_page[s]
                 /\ entered'[s] = selected_page[s]
                 /\ reruns'[s] = reruns[s] + 1
                 /\ pc'[s] = "nltk"
        /\ reruns'[s] <= 1
        /\ (pc[s] = "reconcile" /\ reruns[s] = 1)
              => (selected_page[s] = page[s] /\ page[s] = entered[s])
        /\ (pc[s] = "dispatch" /\ Moves(s) /\ reruns[s] = 1)
              => /\ pc'[s] = "done"
                 /\ rendered'[s] = {entered[s]}
                 /\ invoked'[s] = IF entered[s] = "Chat" /\ pipe[s] = None
                                  THEN {}
                                  ELSE {CollaboratorOf(entered[s])}
      ]_vars

\* C3 witness: the selection moved the session to SampleDataManagement with
\* one re-run and the data-management collaborator was invoked.
C3_Witness ==
    \E s \in Sessions :
        /\ pc[s] = "done"
        /\ reruns[s] = 1
        /\ entered[s] = "SampleDataManagement"
        /\ invoked[s] = {"display_data_page"}

\* C4: when the selector's value equals currentPage, Reconcile leaves
\* currentPage as it is and requests no re-run.
C4_SamePageNoOp ==
    [][\A s \in Sessions :
        (pc[s] = "reconcile" /\ Moves(s) /\ selected_page[s] = page[s])
            => /\ page'[s] = page[s]
               /\ reruns'[s] = reruns[s]
               /\ pc'[s] = "dispatch"
      ]_vars

\* C4 witness: a pass entered on History, with History selected, is at
\* Dispatch without a re-run.
C4_Witness ==
    \E s \in Sessions :
        /\ pc[s] = "dispatch"
        /\ reruns[s] = 0
        /\ entered[s] = "History"
        /\ selected_page[s] = "History"
        /\ page[s] = "History"

\* C5: a pass is halted exactly when initializeDatabase raised in it, and a
\* halted pass has done nothing of seed data, model loading, selection and
\* dispatch; every other pass can always execute its next statement (a pass
\* waiting for the model waits only while another pass is constructing it).
C5_OnlyDbHalts ==
    \A s \in Sessions :
        /\ (pc[s] = "stopped") <=> dbFailed[s]
        /\ pc[s] = "stopped"
              => /\ notices[s] \subseteq {"nltk_warning", "db_error"}
                 /\ pipe[s] = Unset
                 /\ current_page_index[s] = NoIdx
                 /\ selected_page[s] = Unset
                 /\ rendered[s] = {}
                 /\ invoked[s] = {}
        /\ pc[s] \notin {"fresh", "done", "stopped"}
              => \/ ENABLED ScriptStep(s)
                 \/ /\ pc[s] = "model_lock"
                    /\ \E o \in Sessions : ENABLED LoadModelConstruct(o)

\* C5 witness: a pass in which metrics, seed data and model construction all
\* failed has dispatched.
C5_Witness ==
    \E s \in Sessions :
        /\ pc[s] = "done"
        /\ {"nltk_warning", "seed_warning"} \subseteq notices[s]
        /\ pipe[s] = None
        /\ rendered[s] # {}

\* C6: a Dispatch on Chat with an absent model handle shows the failure
\* notice and invokes no collaborator; the chat collaborator is invoked only
\* with the handle a successful construction memoized.
C6_ChatNeedsModel ==
    \A s \in Sessions :
        pc[s] = "done"
            => /\ (rendered[s] = {"Chat"} /\ pipe[s] # Handle)
                    => ("chat_unavailable" \in notices[s] /\ invoked[s] = {})
               /\ "display_chat_page" \in invoked[s]
                    => (pipe[s] = Handle /\ cache = "ok")

\* C6 witness: Chat was dispatched with an absent handle.
C6_Witness ==
    \E s \in Sessions :
        /\ pc[s] = "done"
        /\ rendered[s] = {"Chat"}
        /\ pipe[s] = None
        /\ "chat_unavailable" \in notices[s]

\* C7: with or without a model handle, a Dispatch on History or
\* SampleDataManagement invokes that page's collaborator, and after a pass
\* the selector accepts every page.
C7_OtherPagesIndependent ==
    \A s \in Sessions :
        pc[s] = "done"
            => /\ rendered[s] = {"History"} => invoked[s] = {"display_history_page"}
               /\ rendered[s] = {"SampleDataManagement"} => invoked[s] = {"display_data_page"}
               /\ \A p \in PageSet : ENABLED SelectPage(s, p)

\* C7 witness: with the handle absent the user moved to History and the
\* history collaborator was invoked.
C7_Witness ==
    \E s \in Sessions :
        /\ pc[s] = "done"
        /\ pipe[s] = None
        /\ reruns[s] = 1
        /\ entered[s] = "History"
        /\ invoked[s] = {"display_history_page"}

\* C8: pipeline(...) is called at most once in the process; once an outcome is
\* memoized it never changes and nothing is constructed again; every pass
\* that has its handle holds the memoized outcome.
C8_ConstructedOnce ==
    [][/\ constructs' <= 1
       /\ (cache' # Empty) <=> (constructs' = 1)
       /\ cache # Empty => (cache' = cache /\ constructs' = constructs)
       /\ \A s \in Sessions : pipe'[s] # Unset => pipe'[s] = LoadResult(cache')
      ]_vars

\* C8 witness: two sessions finished passes on one failed construction.
C8_Witness ==
    /\ constructs = 1
    /\ cache = "Exception"
    /\ \A s \in Sessions : pc[s] = "done" /\ pipe[s] = None /\ reruns[s] = 1

\* C9: a Dispatch takes exactly the render path of currentPage, which is one
\* of the three, and invokes at most one collaborator.
C9_ExactlyOnePath ==
    [][\A s \in Sessions :
        (pc[s] = "dispatch" /\ Moves(s))
            => /\ pc'[s] = "done"
               /\ page[s] \in PageSet
               /\ rendered'[s] = {page[s]}
               /\ Cardinality(rendered'[s]) = 1
               /\ Cardinality(invoked'[s]) <= 1
      ]_vars

\* C9 witness: a pass that found an unknown stored value took one path.
C9_Witness ==
    \E s \in Sessions :
        /\ pc[s] = "done"
        /\ entered[s] = Bogus
        /\ Cardinality(rendered[s]) = 1
        /\ Cardinality(invoked[s]) = 1

\* C10: a pass reaches Dispatch only with currentPage equal to the selector's
\* value, and a collaborator that was invoked is the one of the selector's
\* value in that pass.
C10_NoStalePage ==
    \A s \in Sessions :
        /\ pc[s] = "dispatch" => (selected_page[s] \in PageSet /\ page[s] = selected_page[s])
        /\ pc[s] = "done" => \A c \in invoked[s] : c = CollaboratorOf(selected_page[s])

\* C10 witness: after a changed selection the restarted pass rendered the
\* selector's page.
C10_Witness ==
    \E s \in Sessions :
        /\ pc[s] = "done"
        /\ reruns[s] = 1
        /\ selected_page[s] = "History"
        /\ invoked[s] = {"display_history_page"}

====
